---- MODULE Spec2Model ----
(***************************************************************************)
(* Mango Pesticide Detector: the React frontend (Upload, Compare, the      *)
(* useBackendHealth hook, HealthBadge, the router and sessionStorage) as a *)
(* state machine, and the detection route's decision rule as operators.    *)
(*                                                                         *)
(* JavaScript values are written as strings: "undefined", "null", "true",  *)
(* "false" stand for those values, any other string for itself.  A state   *)
(* slot that holds an object or null is a sequence: <<>> is null, <<o>> is *)
(* the object o.                                                           *)
(***************************************************************************)
EXTENDS Integers, Sequences, FiniteSets, TLC

VARIABLES
    REACT_APP_API_URL,  \* process.env.REACT_APP_API_URL at build time ("undefined" = unset)
    route,              \* the router's current path
    locationState,      \* location.state.compareResult: <<>> or <<payload>>
    lastCompare,        \* sessionStorage item 'lastCompare': "null" (absent) or a JSON string
    upload,             \* state of the mounted Upload component (initial state when unmounted)
    compare,            \* state of the mounted Compare component (initial state when unmounted)
    health,             \* per hook instance: online, modelPresent, checking
    checks,             \* per hook instance: the /health requests in flight, in start order
    requests,           \* the upload requests in flight, in send order
    nSubmit,            \* history: number of submit actions handled so far
    nSent,              \* history: number of upload requests sent so far
    server,             \* the detection route: accuracy table and its last decision
    prepare             \* a run of prepare-deploy.ps1: position, $allModelsExist, output

vars == <<REACT_APP_API_URL, route, locationState, lastCompare, upload, compare,
          health, checks, requests, nSubmit, nSent, server, prepare>>

frontend == <<REACT_APP_API_URL, route, locationState, lastCompare, upload, compare,
              health, checks, requests, nSubmit, nSent>>

-----------------------------------------------------------------------------
(* Bounds of the model *)

\* submit actions handled in one run
MaxSubmits == 2
\* /health requests one hook instance has in flight at once
MaxChecks == 2

-----------------------------------------------------------------------------
(* JavaScript helpers *)

\* ToBoolean of a value written as a string
Truthy(v) == v \notin {"undefined", "null", "false", "0", ""}

\* a || b on strings
Or(a, b) == IF Truthy(a) THEN a ELSE b

\* property access d.k (d?.k) on a parsed JSON object
Get(d, k) == IF k \in DOMAIN d THEN d[k] ELSE "undefined"

\* String.prototype.slice(0, n)
Slice(s, n) == SubSeq(s, 1, IF Len(s) < n THEN Len(s) ELSE n)

\* s with element i removed
RemoveAt(s, i) == SubSeq(s, 1, i - 1) \o SubSeq(s, i + 1, Len(s))

\* every element of s with field live set to FALSE (its component unmounted)
Orphan(s) == [i \in 1..Len(s) |-> [s[i] EXCEPT !.live = FALSE]]

-----------------------------------------------------------------------------
(* API configuration (client/src/config/api.js) *)

API_BASE_URL == Or(REACT_APP_API_URL, "/api")

API == [HEALTH            |-> API_BASE_URL \o "/health",
        DETECT            |-> API_BASE_URL \o "/detect",
        COMPARE_IMAGE     |-> API_BASE_URL \o "/compare-image",
        MODELS_COMPARISON |-> API_BASE_URL \o "/models/comparison"]

\* the value the deployment guide sets the environment variable to
DeployedUrl == "https://mango-backend.onrender.com/api"

-----------------------------------------------------------------------------
(* Files and their validation *)

MAX_BYTES == 5 * 1024 * 1024

ACCEPTED_TYPES == {"image/jpeg", "image/png", "image/webp"}

\* files: every type at the size limit and one byte over it
FileTypes == ACCEPTED_TYPES \cup {"image/gif"}
FileSizes == {MAX_BYTES, MAX_BYTES + 1}
Files == [type : FileTypes, size : FileSizes]

\* the files the user picks or drops: two that pass, one of a wrong type, one too large
Picked == {[type |-> "image/jpeg", size |-> MAX_BYTES],
           [type |-> "image/webp", size |-> MAX_BYTES],
           [type |-> "image/gif", size |-> MAX_BYTES],
           [type |-> "image/png", size |-> MAX_BYTES + 1]}

\* validateFile without its size test
validateFile_anySize(f) ==
    IF f = <<>> THEN "No file selected"
    ELSE IF f[1].type \notin ACCEPTED_TYPES THEN "Only JPG, PNG, or WEBP images are allowed."
    ELSE ""

\* Upload.validateFile; f is <<>> (null) or <<file>>
validateFile(f) ==
    IF f = <<>> THEN "No file selected"
    ELSE IF f[1].type \notin ACCEPTED_TYPES THEN "Only JPG, PNG, or WEBP images are allowed."
    ELSE IF f[1].size > MAX_BYTES THEN "File is too large (max 5MB)."
    ELSE ""

-----------------------------------------------------------------------------
(* Responses of the backend, as the frontend sees them *)

JSON_TYPE == "application/json"

\* String.prototype.includes
Includes(s, sub) ==
    \E i \in 1..(Len(s) - Len(sub) + 1) : SubSeq(s, i, i + Len(sub) - 1) = sub

\* number of characters Upload keeps of a non-JSON body
SLICE_LEN == 200

X10 == "0123456789"
X50 == X10 \o X10 \o X10 \o X10 \o X10
\* a body of SLICE_LEN + 1 characters
LongText == X50 \o X50 \o X50 \o X50 \o "!"
BadGateway == "<html>502 Bad Gateway</html>"

\* /api/detect bodies: two with the full comparison, one without models and selection
DetectFull1 == [label |-> "organic", confidence |-> "91.5", model_used |-> "cnn",
                models |-> "models#1", selection |-> "selection#1"]
DetectFull2 == [label |-> "pesticide", confidence |-> "64.2", model_used |-> "random_forest",
                models |-> "models#2", selection |-> "selection#2"]
DetectPlain == [label |-> "pesticide", confidence |-> "77.0", model_used |-> "svm"]

\* error bodies: with an error field, and without one
ErrorBody == [error |-> "Invalid image"]
OtherBody == [message |-> "Internal Server Error"]

\* the payload Upload builds from a detect body, which /api/compare-image returns too
comparePayload(data) ==
    [models |-> Get(data, "models"), selection |-> Get(data, "selection"),
     final |-> [label |-> Get(data, "label"), confidence |-> Get(data, "confidence")]]

Rejected(msg) == [kind |-> "rejected", message |-> msg]
JsonResponse(ok, ct, data) ==
    [kind |-> "json", ok |-> ok, contentType |-> ct, data |-> data]
BadJsonResponse(ok) ==
    [kind |-> "badjson", ok |-> ok, contentType |-> JSON_TYPE,
     message |-> "Unexpected end of JSON input"]
TextResponse(ok, ct, text) ==
    [kind |-> "text", ok |-> ok, contentType |-> ct, text |-> text]

\* what can come back for a fetch of /api/detect
DetectResponses ==
    {Rejected("Failed to fetch"), BadJsonResponse(TRUE)}
    \cup {JsonResponse(TRUE, JSON_TYPE, d) : d \in {DetectFull1, DetectFull2, DetectPlain}}
    \cup {JsonResponse(FALSE, "application/json; charset=utf-8", d) : d \in {ErrorBody, OtherBody}}
    \cup {TextResponse(FALSE, "text/html", t) : t \in {"", BadGateway, LongText}}
    \cup {TextResponse(TRUE, "", t) : t \in {"", BadGateway}}

\* what can come back for a fetch of /api/compare-image
CompareResponses ==
    {Rejected("Failed to fetch"), BadJsonResponse(TRUE)}
    \cup {JsonResponse(TRUE, JSON_TYPE, comparePayload(d)) : d \in {DetectFull1, DetectFull2}}
    \cup {JsonResponse(FALSE, "application/json; charset=utf-8", d) : d \in {ErrorBody, OtherBody}}
    \cup {TextResponse(FALSE, "text/html", t) : t \in {"", BadGateway}}
    \cup {TextResponse(TRUE, "", t) : t \in {BadGateway}}

\* what can come back for a fetch of /api/health
HealthResponses ==
    {Rejected("Failed to fetch"), BadJsonResponse(TRUE)}
    \cup {JsonResponse(TRUE, JSON_TYPE, d) :
            d \in {[status |-> "ok", model_present |-> "true"],
                   [status |-> "ok", model_present |-> "false"],
                   [status |-> "ok"]}}
    \cup {JsonResponse(FALSE, JSON_TYPE, ErrorBody), TextResponse(TRUE, "text/html", "<!doctype html>")}

-----------------------------------------------------------------------------
(* sessionStorage and JSON *)

\* JSON.stringify of one property: a property whose value is undefined is left out
Prop(k, v) == IF v = "undefined" THEN "" ELSE k \o ":" \o v \o ","

\* JSONstringify leaving the confidence out
JSONstringify_noConfidence(p) ==
    "{" \o Prop("models", Get(p, "models")) \o Prop("selection", Get(p, "selection"))
        \o "final:{" \o Prop("label", Get(p.final, "label")) \o "}}"

\* JSON.stringify of a comparison payload
JSONstringify(p) ==
    "{" \o Prop("models", Get(p, "models")) \o Prop("selection", Get(p, "selection"))
        \o "final:{" \o Prop("label", Get(p.final, "label"))
                     \o Prop("confidence", Get(p.final, "confidence")) \o "}}"

\* the objects JSON.parse can give back for a stored payload
Parsed ==
    [models : {"models#1", "models#2"}, selection : {"selection#1", "selection#2"},
     final : [label : {"organic", "pesticide"}, confidence : {"91.5", "64.2", "77.0"}]]

\* JSON.parse: <<>> when s is absent or does not parse, else <<object>>
JSONparse(s) ==
    IF \E p \in Parsed : JSONstringify(p) = s
    THEN <<CHOOSE p \in Parsed : JSONstringify(p) = s>>
    ELSE <<>>

-----------------------------------------------------------------------------
(* Component state *)

Routes == {"/", "/compare", "/about"}

\* the two places useBackendHealth(7000) is called from
Hooks == {"HealthBadge", "Upload"}

\* useState initial values of useBackendHealth
HookInit == [online |-> FALSE, modelPresent |-> FALSE, checking |-> TRUE]

\* useState initial values of Upload
UploadInit == [file |-> <<>>, result |-> <<>>, fullCompare |-> <<>>,
               loading |-> FALSE, error |-> ""]

\* useState initial values of Compare
CompareInit == [file |-> <<>>, loading |-> FALSE, error |-> "", result |-> <<>>]

\* HealthBadge lives in the Navbar, Upload on the Home page
HookMounted(h) == h = "HealthBadge" \/ route = "/"

\* useBackendHealth.check up to its await: the fetch of the health endpoint
\* (overtaken is history: a check started later has settled before this one)
HealthRequest == [url |-> "/api/health", live |-> TRUE, overtaken |-> FALSE]

\* the checks in flight once the i-th of them has settled: those started before it
\* have been overtaken
Overtake(s, i) ==
    [k \in 1..Len(s) |-> IF k < i THEN [s[k] EXCEPT !.overtaken = TRUE] ELSE s[k]]

\* the fetch Upload.onSubmit makes
DetectRequest(file) == [from |-> "Upload", url |-> "/api/detect", file |-> file, live |-> TRUE]

\* the fetch Compare.onSubmit makes
CompareRequest(file) ==
    [from |-> "Compare", url |-> "/api/compare-image", file |-> file, live |-> TRUE]

\* the requests of component c lose their component
OrphanFrom(s, c) ==
    [i \in 1..Len(s) |-> IF s[i].from = c THEN [s[i] EXCEPT !.live = FALSE] ELSE s[i]]

-----------------------------------------------------------------------------
(* The detection route (server/routes/detect.py): its decision on one image *)

ModelNames == {"cnn", "svm", "random_forest"}

\* validation accuracies (percent) the metrics file can hold
AccValues == {85, 90, 95}

\* per-image confidences (percent) around the two thresholds
ConfValues == {20, 30, 40, 49, 50, 90}

\* an image is rejected below this maximum confidence (percent)
MAX_CONF_THRESHOLD == 50
\* an image is rejected below this average confidence (percent)
AVG_CONF_THRESHOLD == 40

\* model a is preferred to model b: higher validation accuracy, then higher confidence
preferred(acc, conf, a, b) ==
    acc[a] > acc[b] \/ (acc[a] = acc[b] /\ conf[a] > conf[b])

\* select_model without the tie-break: a later model wins only on accuracy
select_model_noTieBreak(acc, conf) ==
    LET first == IF acc["svm"] > acc["cnn"] THEN "svm" ELSE "cnn"
    IN  IF acc["random_forest"] > acc[first] THEN "random_forest" ELSE first

\* the model whose prediction is returned: CNN unless a later model is preferred
select_model(acc, conf) ==
    LET first == IF preferred(acc, conf, "svm", "cnn") THEN "svm" ELSE "cnn"
    IN  IF preferred(acc, conf, "random_forest", first) THEN "random_forest" ELSE first

\* validate_mango_image rejecting at the thresholds too
validate_mango_image_strict(cnn_conf, svm_conf, rf_conf) ==
    LET top == IF cnn_conf >= svm_conf /\ cnn_conf >= rf_conf THEN cnn_conf
               ELSE IF svm_conf >= rf_conf THEN svm_conf ELSE rf_conf
    IN  ~(top <= MAX_CONF_THRESHOLD
          \/ cnn_conf + svm_conf + rf_conf <= 3 * AVG_CONF_THRESHOLD)

\* the image passes as a mango image
validate_mango_image(cnn_conf, svm_conf, rf_conf) ==
    LET top == IF cnn_conf >= svm_conf /\ cnn_conf >= rf_conf THEN cnn_conf
               ELSE IF svm_conf >= rf_conf THEN svm_conf ELSE rf_conf
    IN  ~(top < MAX_CONF_THRESHOLD
          \/ cnn_conf + svm_conf + rf_conf < 3 * AVG_CONF_THRESHOLD)

\* the route with accuracy table acc, before any request
ServerIdle(acc) ==
    [acc |-> acc, conf |-> [m \in ModelNames |-> 0],
     decided |-> FALSE, model |-> "cnn", accepted |-> FALSE]

\* the route handles one image, whose confidences are conf
detect ==
    \E conf \in [ModelNames -> ConfValues] :
        /\ server' = [acc |-> server.acc, conf |-> conf, decided |-> TRUE,
                      model |-> select_model(server.acc, conf),
                      accepted |-> validate_mango_image(conf["cnn"], conf["svm"],
                                                        conf["random_forest"])]
        /\ UNCHANGED <<frontend, prepare>>

-----------------------------------------------------------------------------
(* prepare-deploy.ps1: one run of the script.  What the script finds on the machine  *)
(* is the input of each step; out is the set of lines it has written (without their  *)
(* emoji).                                                                          *)

modelFiles ==
    {"server\\model\\mango_model.h5", "server\\model\\models\\svm.pkl",
     "server\\model\\models\\rf.pkl", "server\\model\\model_comparison.json"}

packages == {"flask", "tensorflow", "scikit-learn", "pillow", "gunicorn"}

\* the package sets the run is checked with: all installed, one missing, none installed
Installed == {packages, packages \ {"tensorflow"}, {}}

\* what "git status" can give
GitStates == {"not found", "not a git repository", "uncommitted changes", "clean"}

\* the script before its first line; $allModelsExist is not set yet ($null)
PrepareInit == [pc |-> "directory", allModelsExist |-> FALSE, out |-> {}]

\* the script writes lines and goes on at step pc
Continue(lines, pc) == [prepare EXCEPT !.out = @ \cup lines, !.pc = pc]

\* the script writes lines and stops with "exit 1"
Exit1(lines) == [prepare EXCEPT !.out = @ \cup lines, !.pc = "exit 1"]

\* "Check if we're in the right directory"
CheckDirectoryWith(hasServer, hasClient) ==
    /\ prepare.pc = "directory"
    /\ prepare' =
         IF ~hasServer \/ ~hasClient
         THEN Exit1({"Error: Run this script from the project root directory"})
         ELSE Continue({"Running from correct directory"}, "python")
    /\ UNCHANGED <<frontend, server>>

\* "Check Python": a command that is not found throws, which the catch turns into exit 1
CheckPythonWith(found) ==
    /\ prepare.pc = "python"
    /\ prepare' =
         IF found THEN Continue({"Checking Python...", "Python found"}, "node")
         ELSE Exit1({"Checking Python...", "Python not found. Install Python 3.9+"})
    /\ UNCHANGED <<frontend, server>>

\* CheckNodeWith going on without Node.js
CheckNodeWith_goesOn(found) ==
    /\ prepare.pc = "node"
    /\ prepare' =
         IF found THEN Continue({"Checking Node.js...", "Node.js found"}, "model files")
         ELSE Continue({"Checking Node.js...", "Node.js not found. Install Node.js 16+"},
                       "model files")
    /\ UNCHANGED <<frontend, server>>

\* "Check Node.js"
CheckNodeWith(found) ==
    /\ prepare.pc = "node"
    /\ prepare' =
         IF found THEN Continue({"Checking Node.js...", "Node.js found"}, "model files")
         ELSE Exit1({"Checking Node.js...", "Node.js not found. Install Node.js 16+"})
    /\ UNCHANGED <<frontend, server>>

\* "Check model files": present are the files Test-Path finds
CheckModelFilesWith(present) ==
    /\ prepare.pc = "model files"
    /\ prepare' =
         [Continue({"Checking model files..."}
                   \cup {f \o " (MB)" : f \in present}
                   \cup {f \o " - NOT FOUND" : f \in modelFiles \ present}
                   \cup (IF modelFiles \ present # {}
                         THEN {"Some model files are missing. Train models first:"}
                         ELSE {}),
                   "venv")
          EXCEPT !.allModelsExist = (modelFiles \ present = {})]
    /\ UNCHANGED <<frontend, server>>


\* "Check if virtual environment exists": a missing one is created
CheckVenvWith(exists) ==
    /\ prepare.pc = "venv"
    /\ prepare' =
         IF exists
         THEN Continue({"Checking Python environment...", "Virtual environment exists"},
                       "backend dependencies")
         ELSE Continue({"Checking Python environment...",
                        "Virtual environment not found. Creating...",
                        "Virtual environment created"}, "backend dependencies")
    /\ UNCHANGED <<frontend, server>>

\* "Test backend dependencies": installed are the packages "pip show" finds; with one
\* missing the requirements are installed
CheckBackendDepsWith(installed) ==
    /\ prepare.pc = "backend dependencies"
    /\ prepare' =
         Continue({"Checking backend dependencies..."}
                  \cup {pkg \o " installed" : pkg \in installed}
                  \cup {pkg \o " not installed" : pkg \in packages \ installed}
                  \cup (IF packages \ installed # {}
                        THEN {"Installing missing dependencies..."} ELSE {}),
                  "frontend dependencies")
    /\ UNCHANGED <<frontend, server>>

\* "Test frontend dependencies"
CheckFrontendDepsWith(nodeModules) ==
    /\ prepare.pc = "frontend dependencies"
    /\ prepare' =
         IF nodeModules
         THEN Continue({"Checking frontend dependencies...", "node_modules exists"},
                       "backend")
         ELSE Continue({"Checking frontend dependencies...",
                        "node_modules not found. Installing...",
                        "Dependencies installed"}, "backend")
    /\ UNCHANGED <<frontend, server>>

\* "Test backend build": printedOK is whether the import test printed OK
TestBackendWith(printedOK) ==
    /\ prepare.pc = "backend"
    /\ prepare' =
         IF printedOK
         THEN Continue({"Testing backend...", "Backend imports working"}, "frontend build")
         ELSE Continue({"Testing backend...", "Backend import errors:"}, "frontend build")
    /\ UNCHANGED <<frontend, server>>

\* "Test frontend build": code is the exit code of "npm run build"
TestFrontendBuildWith(code) ==
    /\ prepare.pc = "frontend build"
    /\ prepare' =
         IF code = 0
         THEN Continue({"Testing frontend build...", "Frontend build successful"}, "git")
         ELSE Continue({"Testing frontend build...", "Frontend build failed"}, "git")
    /\ UNCHANGED <<frontend, server>>

\* "Check Git"
CheckGitWith(git) ==
    /\ prepare.pc = "git"
    /\ prepare' =
         Continue({"Checking Git..."}
                  \cup (CASE git = "not found" -> {"Git not found. Install Git for deployment"}
                          [] git = "not a git repository"
                               -> {"Not a git repository. Initialize with:"}
                          [] git = "uncommitted changes"
                               -> {"Git repository initialized",
                                   "You have uncommitted changes:"}
                          [] git = "clean"
                               -> {"Git repository initialized", "No uncommitted changes"}),
                  "summary")
    /\ UNCHANGED <<frontend, server>>

\* "Project Statistics" and "Summary", to the last line of the script
Summary ==
    /\ prepare.pc = "summary"
    /\ prepare' =
         Continue({"Project Statistics...", "SUMMARY",
                   IF prepare.allModelsExist THEN "All model files present"
                   ELSE "Some model files missing - TRAIN MODELS FIRST",
                   "Dependencies checked", "Builds tested", "Next Steps:",
                   "Ready to deploy! Good luck!"}, "end")
    /\ UNCHANGED <<frontend, server>>

CheckDirectory == \E hasServer, hasClient \in BOOLEAN : CheckDirectoryWith(hasServer, hasClient)
CheckPython == \E found \in BOOLEAN : CheckPythonWith(found)
CheckNode == \E found \in BOOLEAN : CheckNodeWith(found)
CheckModelFiles == \E present \in SUBSET modelFiles : CheckModelFilesWith(present)
CheckVenv == \E exists \in BOOLEAN : CheckVenvWith(exists)
CheckBackendDeps == \E installed \in Installed : CheckBackendDepsWith(installed)
CheckFrontendDeps == \E nodeModules \in BOOLEAN : CheckFrontendDepsWith(nodeModules)
TestBackend == \E printedOK \in BOOLEAN : TestBackendWith(printedOK)
TestFrontendBuild == \E code \in {0, 1} : TestFrontendBuildWith(code)
CheckGit == \E git \in GitStates : CheckGitWith(git)

-----------------------------------------------------------------------------
\* the application right after its first render, built with environment value env,
\* the backend started with accuracy table acc: the hooks of the mounted components
\* have started their first check
Start(env, acc) ==
    /\ REACT_APP_API_URL = env
    /\ route \in Routes
    /\ locationState = <<>>
    /\ lastCompare = "null"
    /\ upload = UploadInit
    /\ compare = CompareInit
    /\ health = [h \in Hooks |-> HookInit]
    /\ checks = [h \in Hooks |-> IF HookMounted(h) THEN <<HealthRequest>> ELSE <<>>]
    /\ requests = <<>>
    /\ nSubmit = 0
    /\ nSent = 0
    /\ server = ServerIdle(acc)
    /\ prepare = PrepareInit

\* a build without REACT_APP_API_URL
Init == Start("undefined", [m \in ModelNames |-> 90])

\* a build with REACT_APP_API_URL set as the deployment guide says
InitDeployed == Start(DeployedUrl, [m \in ModelNames |-> 90])

-----------------------------------------------------------------------------
(* useBackendHealth *)

\* checkOutcome ending the checking state on success only
checkOutcome_noFinally(r) ==
    IF r.kind = "json" /\ r.ok
    THEN [online |-> TRUE, modelPresent |-> Truthy(Get(r.data, "model_present")),
          checking |-> FALSE]
    ELSE [online |-> FALSE, modelPresent |-> FALSE, checking |-> TRUE]

\* checkOutcome taking the presence of model_present for its truth
checkOutcome_present(r) ==
    IF r.kind = "json" /\ r.ok
    THEN [online |-> TRUE, modelPresent |-> Get(r.data, "model_present") # "undefined",
          checking |-> FALSE]
    ELSE [online |-> FALSE, modelPresent |-> FALSE, checking |-> FALSE]

\* check() after its await: what the hook's state becomes for response r
checkOutcome(r) ==
    IF r.kind = "json" /\ r.ok
    THEN [online |-> TRUE, modelPresent |-> Truthy(Get(r.data, "model_present")),
          checking |-> FALSE]
    ELSE [online |-> FALSE, modelPresent |-> FALSE, checking |-> FALSE]

\* intervalTick of an interval that unmounting does not clear
intervalTick_notCleared(h) ==
    /\ Len(checks[h]) < MaxChecks
    /\ checks' = [checks EXCEPT ![h] = Append(@, HealthRequest)]
    /\ UNCHANGED <<REACT_APP_API_URL, route, locationState, lastCompare, upload,
                   compare, health, requests, nSubmit, nSent, server, prepare>>

\* setInterval(check, intervalMs) fires for a mounted hook
intervalTick(h) ==
    /\ HookMounted(h)
    /\ Len(checks[h]) < MaxChecks
    /\ checks' = [checks EXCEPT ![h] = Append(@, HealthRequest)]
    /\ UNCHANGED <<REACT_APP_API_URL, route, locationState, lastCompare, upload,
                   compare, health, requests, nSubmit, nSent, server, prepare>>

\* the i-th /health fetch of hook h settles with response r; a hook that was unmounted
\* meanwhile ignores it
checkSettlesWith(h, i, r) ==
    /\ checks' = [checks EXCEPT
                     ![h] = RemoveAt(IF @[i].live THEN Overtake(@, i) ELSE @, i)]
    /\ health' = IF checks[h][i].live
                 THEN [health EXCEPT ![h] = checkOutcome(r)]
                 ELSE health
    /\ UNCHANGED <<REACT_APP_API_URL, route, locationState, lastCompare, upload,
                   compare, requests, nSubmit, nSent, server, prepare>>

checkSettles(h) ==
    \E i \in 1..Len(checks[h]) : \E r \in HealthResponses : checkSettlesWith(h, i, r)

\* HealthBadge: the text shown for hook state s (the bullet is written *, the ellipsis ...)
HealthBadgeText(s) ==
    IF s.checking THEN "Checking..."
    ELSE IF s.online
         THEN (IF s.modelPresent THEN "API: Online * Model: OK"
               ELSE "API: Online * Model: Missing")
         ELSE "API: Offline"

-----------------------------------------------------------------------------
(* Upload *)

\* Upload.applyFile: the component state after f (<<>> or <<file>>) was chosen
applyFile(f) ==
    IF validateFile(f) # ""
    THEN [upload EXCEPT !.result = <<>>, !.file = <<>>, !.error = validateFile(f)]
    ELSE [upload EXCEPT !.result = <<>>, !.error = "", !.file = f]

\* the file picker changes: a file was picked, or the selection was emptied
Upload_onFileChange ==
    \E f \in {<<>>} \cup {<<x>> : x \in Picked} :
        /\ route = "/"
        /\ upload' = applyFile(f)
        /\ UNCHANGED <<REACT_APP_API_URL, route, locationState, lastCompare, compare,
                       health, checks, requests, nSubmit, nSent, server, prepare>>

\* a file is dropped on the preview area
Upload_onDrop ==
    \E x \in Picked :
        /\ route = "/"
        /\ upload' = applyFile(<<x>>)
        /\ UNCHANGED <<REACT_APP_API_URL, route, locationState, lastCompare, compare,
                       health, checks, requests, nSubmit, nSent, server, prepare>>

\* Upload: the "Model not found" notice is rendered
Upload_modelNotice ==
    /\ route = "/"
    /\ ~(upload.error # "") /\ ~upload.loading /\ ~health["Upload"].checking
    /\ health["Upload"].online /\ ~health["Upload"].modelPresent

\* the submit button without its loading test
Upload_canSubmit_whileLoading ==
    ~(~health["Upload"].online \/ health["Upload"].checking)

\* the submit button without its online test
Upload_canSubmit_offline ==
    ~(upload.loading \/ health["Upload"].checking)

\* the text of Upload's submit button for a loading flag and a hook state s (the
\* ellipsis is written ...)
submitLabel(loading, s) ==
    IF loading THEN "Detecting..."
    ELSE IF s.checking THEN "Checking API..."
    ELSE IF ~s.online THEN "API offline"
    ELSE "Detect Pesticide"

\* the text of Upload's submit button
Upload_submitLabel == submitLabel(upload.loading, health["Upload"])

\* the submit button of Upload is enabled
Upload_canSubmit ==
    ~(upload.loading \/ ~health["Upload"].online \/ health["Upload"].checking)

\* Upload.onSubmit up to its await
Upload_onSubmit ==
    /\ route = "/"
    /\ Upload_canSubmit
    /\ nSubmit < MaxSubmits
    /\ nSubmit' = nSubmit + 1
    /\ IF upload.file = <<>>
       THEN /\ upload' = [upload EXCEPT !.error = "Please select an image first.",
                                        !.result = <<>>]
            /\ UNCHANGED <<requests, nSent>>
       ELSE /\ upload' = [upload EXCEPT !.error = "", !.result = <<>>, !.loading = TRUE]
            /\ requests' = Append(requests, DetectRequest(upload.file[1]))
            /\ nSent' = nSent + 1
    /\ UNCHANGED <<REACT_APP_API_URL, route, locationState, lastCompare, compare,
                   health, checks, server, prepare>>

\* Upload_failure looking at the status alone when the response is not 2xx
Upload_failure_statusOnly(r) ==
    IF r.kind = "rejected" THEN Or(r.message, "Request failed")
    ELSE IF ~r.ok THEN "Request failed"
    ELSE IF Includes(Or(r.contentType, ""), "application/json")
         THEN IF r.kind # "json" THEN Or(r.message, "Request failed") ELSE ""
         ELSE Or(Slice(r.text, SLICE_LEN), "Non-JSON response from server")

\* Upload.onSubmit after the fetch: the message it throws for response r, "" when none
Upload_failure(r) ==
    IF r.kind = "rejected" THEN Or(r.message, "Request failed")
    ELSE IF Includes(Or(r.contentType, ""), "application/json")
         THEN IF r.kind # "json" THEN Or(r.message, "Request failed")
              ELSE IF ~r.ok THEN Or(Get(r.data, "error"), "Request failed")
              ELSE ""
         ELSE Or(Slice(r.text, SLICE_LEN), "Non-JSON response from server")

\* a successful detect body carries the full comparison
hasComparison(data) == Truthy(Get(data, "models")) /\ Truthy(Get(data, "selection"))

\* Upload_settled ending the loading state on success only
Upload_settled_noFinally(r) ==
    IF Upload_failure(r) # ""
    THEN [upload EXCEPT !.error = Upload_failure(r)]
    ELSE [upload EXCEPT
            !.result = <<[label |-> Get(r.data, "label"),
                          confidence |-> Get(r.data, "confidence"),
                          model_used |-> Get(r.data, "model_used")]>>,
            !.fullCompare = IF hasComparison(r.data) THEN <<comparePayload(r.data)>> ELSE @,
            !.loading = FALSE]

\* Upload.onSubmit after the fetch: the component state for response r
Upload_settled(r) ==
    IF Upload_failure(r) # ""
    THEN [upload EXCEPT !.error = Upload_failure(r), !.loading = FALSE]
    ELSE [upload EXCEPT
            !.result = <<[label |-> Get(r.data, "label"),
                          confidence |-> Get(r.data, "confidence"),
                          model_used |-> Get(r.data, "model_used")]>>,
            !.fullCompare = IF hasComparison(r.data) THEN <<comparePayload(r.data)>> ELSE @,
            !.loading = FALSE]

\* the i-th request, a fetch of /api/detect, settles with response r; setItem may throw
\* (stored = FALSE), which is swallowed.  The continuation of an unmounted Upload still
\* runs: its setState calls do nothing.
Upload_onResponseWith(i, r, stored) ==
    /\ requests[i].from = "Upload"
    /\ requests' = RemoveAt(requests, i)
    /\ upload' = IF requests[i].live THEN Upload_settled(r) ELSE upload
    /\ lastCompare' =
         IF Upload_failure(r) = "" /\ hasComparison(r.data) /\ stored
         THEN JSONstringify(comparePayload(r.data))
         ELSE lastCompare
    /\ UNCHANGED <<REACT_APP_API_URL, route, locationState, compare, health, checks,
                   nSubmit, nSent, server, prepare>>

\* Upload_onResponse sending the request again when it failed
Upload_onResponse_retry ==
    \E i \in 1..Len(requests) : \E r \in DetectResponses :
        IF requests[i].from = "Upload" /\ requests[i].live /\ Upload_failure(r) # ""
        THEN /\ requests' = Append(RemoveAt(requests, i), requests[i])
             /\ nSent' = nSent + 1
             /\ UNCHANGED <<REACT_APP_API_URL, route, locationState, lastCompare, upload,
                            compare, health, checks, nSubmit, server, prepare>>
        ELSE Upload_onResponseWith(i, r, TRUE)

Upload_onResponse ==
    \E i \in 1..Len(requests) : \E r \in DetectResponses :
    \E stored \in IF Upload_failure(r) = "" /\ hasComparison(r.data) THEN BOOLEAN ELSE {TRUE} :
        Upload_onResponseWith(i, r, stored)

\* Upload_reset aborting the request in flight as well
Upload_reset_abort ==
    /\ route = "/"
    /\ upload.file # <<>> \/ upload.result # <<>>
    /\ upload' = [upload EXCEPT !.file = <<>>, !.result = <<>>, !.error = "",
                                !.loading = FALSE]
    /\ requests' = SelectSeq(requests, LAMBDA q : ~(q.from = "Upload" /\ q.live))
    /\ UNCHANGED <<REACT_APP_API_URL, route, locationState, lastCompare, compare,
                   health, checks, nSubmit, nSent, server, prepare>>

\* Upload.reset, behind "Clear" (shown with a file) and "Try another image" (with a result)
Upload_reset ==
    /\ route = "/"
    /\ upload.file # <<>> \/ upload.result # <<>>
    /\ upload' = [upload EXCEPT !.file = <<>>, !.result = <<>>, !.error = ""]
    /\ UNCHANGED <<REACT_APP_API_URL, route, locationState, lastCompare, compare,
                   health, checks, requests, nSubmit, nSent, server, prepare>>

-----------------------------------------------------------------------------
(* Compare *)

\* Compare.onFile: the component state after f (<<>> or <<file>>) was chosen
onFile(f) ==
    IF f = <<>> THEN [compare EXCEPT !.error = "", !.result = <<>>, !.file = <<>>]
    ELSE IF f[1].type \notin ACCEPTED_TYPES
         THEN [compare EXCEPT !.result = <<>>,
                              !.error = "Only JPG, PNG, or WEBP images are allowed."]
    ELSE IF f[1].size > MAX_BYTES
         THEN [compare EXCEPT !.result = <<>>, !.error = "File is too large (max 5MB)."]
    ELSE [compare EXCEPT !.error = "", !.result = <<>>, !.file = f]

\* the form of Compare is rendered only while there is no result
Compare_formShown == route = "/compare" /\ compare.result = <<>>

\* the file picker of Compare changes
Compare_onFile ==
    \E f \in {<<>>} \cup {<<x>> : x \in Picked} :
        /\ Compare_formShown
        /\ compare' = onFile(f)
        /\ UNCHANGED <<REACT_APP_API_URL, route, locationState, lastCompare, upload,
                       health, checks, requests, nSubmit, nSent, server, prepare>>

\* Compare.onSubmit up to its await
Compare_onSubmit ==
    /\ Compare_formShown
    /\ ~compare.loading
    /\ nSubmit < MaxSubmits
    /\ nSubmit' = nSubmit + 1
    /\ IF compare.file = <<>>
       THEN /\ compare' = [compare EXCEPT !.error = "Please choose an image."]
            /\ UNCHANGED <<requests, nSent>>
       ELSE /\ compare' = [compare EXCEPT !.loading = TRUE, !.error = "", !.result = <<>>]
            /\ requests' = Append(requests, CompareRequest(compare.file[1]))
            /\ nSent' = nSent + 1
    /\ UNCHANGED <<REACT_APP_API_URL, route, locationState, lastCompare, upload,
                   health, checks, server, prepare>>

\* Compare.onSubmit after the fetch: the data it reads from response r
Compare_data(r) ==
    IF Includes(Or(r.contentType, ""), "application/json") THEN r.data
    ELSE [error |-> r.text]

\* Compare.onSubmit after the fetch: the message it throws for response r, "" when none
Compare_failure(r) ==
    IF r.kind = "rejected" THEN Or(r.message, "Request failed")
    ELSE IF r.kind = "badjson" THEN Or(r.message, "Request failed")
    ELSE IF ~r.ok THEN Or(Get(Compare_data(r), "error"), "Request failed")
    ELSE ""

\* Compare.onSubmit after the fetch: the component state for response r
Compare_settled(r) ==
    IF Compare_failure(r) # ""
    THEN [compare EXCEPT !.error = Compare_failure(r), !.loading = FALSE]
    ELSE [compare EXCEPT !.result = <<Compare_data(r)>>, !.loading = FALSE]

\* the i-th request, a fetch of /api/compare-image, settles with response r
Compare_onResponseWith(i, r) ==
    /\ requests[i].from = "Compare"
    /\ requests' = RemoveAt(requests, i)
    /\ compare' = IF requests[i].live THEN Compare_settled(r) ELSE compare
    /\ UNCHANGED <<REACT_APP_API_URL, route, locationState, lastCompare, upload,
                   health, checks, nSubmit, nSent, server, prepare>>

Compare_onResponse ==
    \E i \in 1..Len(requests) : \E r \in CompareResponses : Compare_onResponseWith(i, r)

\* Compare_effect reading sessionStorage before the navigation state
Compare_effect_storedFirst(current, passed) ==
    IF Truthy(lastCompare) /\ JSONparse(lastCompare) # <<>> THEN JSONparse(lastCompare)
    ELSE IF passed # <<>> THEN passed
    ELSE current

\* Compare's effect on location.state: the result it leaves, given the current one
Compare_effect(current, passed) ==
    IF passed # <<>> THEN passed
    ELSE IF Truthy(lastCompare) /\ JSONparse(lastCompare) # <<>> THEN JSONparse(lastCompare)
    ELSE current

-----------------------------------------------------------------------------
(* Routing: components mount and unmount as the path changes *)

\* navigate(to, { state }): setItem in Compare's effect may throw, which is swallowed
Navigate(to, passed, stored) ==
    /\ route' = to
    /\ locationState' = passed
    /\ route # "/" /\ to = "/" => Len(checks["Upload"]) < MaxChecks
    /\ upload' = IF route = "/" /\ to = "/" THEN upload ELSE UploadInit
    /\ health' = IF route = "/" /\ to = "/" THEN health
                 ELSE [health EXCEPT !["Upload"] = HookInit]
    /\ checks' = IF route = "/" /\ to = "/" THEN checks
                 ELSE IF to = "/"
                      THEN [checks EXCEPT !["Upload"] = Append(Orphan(@), HealthRequest)]
                      ELSE [checks EXCEPT !["Upload"] = Orphan(@)]
    /\ requests' = OrphanFrom(OrphanFrom(requests, IF to = "/" THEN "" ELSE "Upload"),
                              IF to = "/compare" THEN "" ELSE "Compare")
    /\ compare' = IF to # "/compare" THEN CompareInit
                  ELSE IF route # "/compare"
                       THEN [CompareInit EXCEPT !.result = Compare_effect(<<>>, passed)]
                  ELSE IF passed # locationState
                       THEN [compare EXCEPT !.result = Compare_effect(@, passed)]
                  ELSE compare
    /\ lastCompare' = IF to = "/compare" /\ passed # <<>> /\ stored
                         /\ (route # "/compare" \/ passed # locationState)
                      THEN JSONstringify(passed[1])
                      ELSE lastCompare
    /\ UNCHANGED <<REACT_APP_API_URL, nSubmit, nSent, server, prepare>>

\* a NavLink (or the logo) of the Navbar is clicked: no navigation state
NavLink == \E to \in Routes : Navigate(to, <<>>, TRUE)

\* the "Compare" NavLink of the Navbar
Compare_navLink == Navigate("/compare", <<>>, TRUE)

\* the "View comparison chart" button of Upload
Upload_viewComparison ==
    /\ route = "/"
    /\ upload.fullCompare # <<>>
    /\ \E stored \in BOOLEAN : Navigate("/compare", upload.fullCompare, stored)

-----------------------------------------------------------------------------
(* What the pages render *)

\* the elements Upload renders in its current state
Upload_render ==
    {"form", "file input", "submit"}
    \cup (IF upload.file # <<>> THEN {"Clear"} ELSE {})
    \cup (IF upload.result # <<>> THEN {"Try another image"} ELSE {})
    \cup (IF upload.fullCompare # <<>> THEN {"View comparison chart"} ELSE {})
    \cup (IF upload.error # "" THEN {"error"} ELSE {})
    \cup (IF Upload_modelNotice THEN {"Model not found"} ELSE {})
    \cup (IF upload.result # <<>> /\ ~(upload.error # "") THEN {"result"} ELSE {})

\* the elements Compare renders in its current state; the bar chart is part of the
\* result panel
Compare_render ==
    {"heading"}
    \cup (IF compare.result = <<>> THEN {"form", "file input", "submit"} ELSE {})
    \cup (IF compare.error # "" THEN {"error"} ELSE {})
    \cup (IF compare.result # <<>> THEN {"result", "chart"} ELSE {})

\* Home renders its heading and Upload
Home_render == {"heading"} \cup Upload_render

\* About renders static text
About_render == {"heading", "text"}

\* the element of <main> for the current path
Page ==
    IF route = "/" THEN Home_render
    ELSE IF route = "/compare" THEN Compare_render
    ELSE About_render

-----------------------------------------------------------------------------
\* the hook instance of Upload
Upload_intervalTick == intervalTick("Upload")
Upload_checkSettles == checkSettles("Upload")

\* the hook instance of HealthBadge
HealthBadge_intervalTick == intervalTick("HealthBadge")
HealthBadge_checkSettles == checkSettles("HealthBadge")

\* The pages.  The hook instance of HealthBadge shares no state with any page and is
\* left out here (its first check stays in flight); NextHealth has both instances.
Next ==
    \/ Upload_intervalTick
    \/ Upload_checkSettles
    \/ Upload_onFileChange
    \/ Upload_onDrop
    \/ Upload_onSubmit
    \/ Upload_onResponse
    \/ Upload_reset
    \/ Upload_viewComparison
    \/ Compare_onFile
    \/ Compare_onSubmit
    \/ Compare_onResponse
    \/ NavLink

Spec == Init /\ [][Next]_vars

\* the same pages in a build with REACT_APP_API_URL set
SpecDeployed == InitDeployed /\ [][Next]_vars

\* The pages with a user who, on the Compare page, sooner or later uses every control
\* that stays available, and with every request of Compare settling.
SpecComparePage ==
    /\ Init /\ [][Next]_vars
    /\ WF_vars(Compare_onFile)
    /\ WF_vars(Compare_onSubmit)
    /\ WF_vars(Compare_onResponse)
    /\ WF_vars(Compare_navLink)

\* The two hook instances, with Upload mounting and unmounting as the path changes.
NextHealth ==
    \/ Upload_intervalTick
    \/ Upload_checkSettles
    \/ HealthBadge_intervalTick
    \/ HealthBadge_checkSettles
    \/ NavLink

SpecHealth == Init /\ [][NextHealth]_vars

\* The detection route alone, for every accuracy table.
InitSelect ==
    /\ \E acc \in [ModelNames -> AccValues] : Start("undefined", acc)
    /\ route = "/"

NextSelect == detect

SpecSelect == InitSelect /\ [][NextSelect]_vars

\* One run of prepare-deploy.ps1.
InitPrepare == Init /\ route = "/"

NextPrepare ==
    \/ CheckDirectory
    \/ CheckPython
    \/ CheckNode
    \/ CheckModelFiles
    \/ CheckVenv
    \/ CheckBackendDeps
    \/ CheckFrontendDeps
    \/ TestBackend
    \/ TestFrontendBuild
    \/ CheckGit
    \/ Summary

SpecPrepare == InitPrepare /\ [][NextPrepare]_vars

-----------------------------------------------------------------------------
(* Properties *)

\* the largest of three numbers
Max3(a, b, c) == IF a >= b /\ a >= c THEN a ELSE IF b >= c THEN b ELSE c

\* C1: once the route has decided, the chosen model has the highest validation accuracy
\* of the three, and among the models that share that accuracy it has the highest
\* confidence on this image.
C1_ModelSelection ==
    server.decided =>
        /\ \A m \in ModelNames : server.acc[m] <= server.acc[server.model]
        /\ \A m \in ModelNames :
             server.acc[m] = server.acc[server.model]
                => server.conf[m] <= server.conf[server.model]

\* a decision where two models tie on the highest accuracy and the later one wins on
\* confidence, against a less accurate model that is more confident than both
C1_Witness ==
    /\ server.decided
    /\ server.model = "random_forest"
    /\ server.acc["svm"] = server.acc["random_forest"]
    /\ server.acc["cnn"] < server.acc["svm"]
    /\ server.conf["svm"] < server.conf["random_forest"]
    /\ server.conf["random_forest"] < server.conf["cnn"]

\* C2: an image is rejected exactly when the maximum of the three confidences is below
\* 50 percent or their average is below 40 percent (their sum below 3 * 40); at a maximum
\* of exactly 50 and an average of exactly 40 the image is accepted.
C2_MangoRejection ==
    server.decided =>
        LET c == server.conf
            top == Max3(c["cnn"], c["svm"], c["random_forest"])
            sum == c["cnn"] + c["svm"] + c["random_forest"]
        IN  /\ ~server.accepted <=> (top < 50 \/ sum < 3 * 40)
            /\ top = 50 /\ sum = 3 * 40 => server.accepted

\* an image with maximum exactly 50 and average exactly 40 was accepted
C2_Witness ==
    /\ server.decided
    /\ server.accepted
    /\ Max3(server.conf["cnn"], server.conf["svm"], server.conf["random_forest"]) = 50
    /\ server.conf["cnn"] + server.conf["svm"] + server.conf["random_forest"] = 120

\* the file test the two pages are to apply
Acceptable(f) ==
    /\ f.type \in {"image/jpeg", "image/png", "image/webp"}
    /\ f.size <= 5 * 1024 * 1024

\* C3: on Upload and on Compare a chosen file becomes the page's file exactly when its
\* type is JPEG, PNG or WEBP and its size is at most 5 * 1024 * 1024 bytes, and no file
\* that fails this test is the page's file or the body of a request in flight.
C3_FileValidation ==
    /\ \A f \in Files : (applyFile(<<f>>).file = <<f>>) <=> Acceptable(f)
    /\ \A f \in Files : (onFile(<<f>>).file = <<f>>) <=> Acceptable(f)
    /\ upload.file # <<>> => Acceptable(upload.file[1])
    /\ compare.file # <<>> => Acceptable(compare.file[1])
    /\ \A i \in 1..Len(requests) :
         /\ Acceptable(requests[i].file)
         /\ requests[i].url \in {"/api/detect", "/api/compare-image"}

\* a file of exactly the size limit is on its way to /api/detect while Upload shows the
\* rejection of a later, too large, file
C3_Witness ==
    /\ \E i \in 1..Len(requests) :
         /\ requests[i].url = "/api/detect"
         /\ requests[i].live
         /\ requests[i].file.size = MAX_BYTES
    /\ upload.error = "File is too large (max 5MB)."
    /\ upload.file = <<>>

\* the requests in flight that component c, as mounted now, has sent
InFlight(c) == {i \in 1..Len(requests) : requests[i].from = c /\ requests[i].live}

\* C4: a mounted Upload has at most one request to /api/detect in flight and a mounted
\* Compare at most one to /api/compare-image; every step sends at most one request, and
\* a step that sends one handles exactly one submit action.
C4_SingleInFlight ==
    /\ [](\A c \in {"Upload", "Compare"} : Cardinality(InFlight(c)) <= 1)
    /\ [][/\ Len(requests') <= Len(requests) + 1
          /\ Len(requests') = Len(requests) + 1
               => nSubmit' = nSubmit + 1 /\ (Upload_onSubmit \/ Compare_onSubmit)]_vars

\* Upload has a request in flight, sent by its second submit, while the user has
\* already picked another file
C4_Witness ==
    /\ route = "/"
    /\ nSubmit = 2
    /\ upload.loading
    /\ \E i \in InFlight("Upload") : upload.file # <<>> /\ upload.file[1] # requests[i].file


\* a fetch that was rejected or answered with a status outside 2xx
Failed(r) == IF r.kind = "rejected" THEN TRUE ELSE ~r.ok

\* the first n characters of t
FirstChars(t, n) == IF Len(t) <= n THEN t ELSE SubSeq(t, 1, n)

\* the message of a failed request: the response's error field when it has one,
\* otherwise 'Request failed'
ErrorFieldOrDefault(r) ==
    IF r.kind = "json" /\ "error" \in DOMAIN r.data /\ r.data.error # ""
    THEN r.data.error
    ELSE "Request failed"

C6_NoRetry ==
    /\ [](nSent <= nSubmit)
    /\ [][/\ nSent' # nSent \/ Len(requests') > Len(requests)
               => Upload_onSubmit \/ Compare_onSubmit
          /\ Upload_onResponse \/ Compare_onResponse
               => nSent' = nSent /\ Len(requests') = Len(requests) - 1]_vars

\* a request of Upload has failed and nothing is in flight afterwards
C6_Witness ==
    /\ route = "/"
    /\ upload.error = "Failed to fetch"
    /\ ~upload.loading
    /\ nSent = 1
    /\ requests = <<>>

\* C7: when a health check of a mounted hook gets a 2xx JSON response, online becomes
\* true and modelPresent the truth of model_present; when that field is false or
\* absent the badge of that state reads 'API: Online * Model: Missing' and Upload, with
\* no error and no request loading, shows the 'Model not found' notice.
C7_ModelMissingFlag ==
    [][\A h \in Hooks : \A i \in 1..Len(checks[h]) : \A r \in HealthResponses :
          checkSettlesWith(h, i, r) /\ checks[h][i].live /\ r.kind = "json" /\ r.ok
             => /\ health'[h].online
                /\ health'[h].modelPresent <=> Get(r.data, "model_present") = "true"
                /\ Get(r.data, "model_present") \in {"false", "undefined"}
                     => /\ HealthBadgeText(health'[h]) = "API: Online * Model: Missing"
                        /\ h = "Upload" /\ upload'.error = "" /\ ~upload'.loading
                             => Upload_modelNotice']_vars

\* the badge reads 'Model: Missing' and Upload shows the notice
C7_Witness ==
    /\ HealthBadgeText(health["HealthBadge"]) = "API: Online * Model: Missing"
    /\ Upload_modelNotice

\* C8 as stated: no prediction is held in a store that outlives the component that
\* received it, and a page that has just been mounted shows no result.
C8_NotPersistedAsStated ==
    /\ [](lastCompare = "null" /\ locationState = <<>>)
    /\ [][/\ route' # route /\ route' = "/" => upload'.result = <<>>
          /\ route' # route /\ route' = "/compare" => compare'.result = <<>>]_vars

\* C8, amended: sessionStorage 'lastCompare' and the navigation state hold nothing or a
\* comparison payload, and outlive the component; an Upload that has just been mounted
\* shows no result and offers no comparison; a Compare that has just been mounted shows
\* the payload of the navigation state when there is one, otherwise the payload read
\* from 'lastCompare', otherwise nothing.
C8_PersistedComparison ==
    /\ [](lastCompare = "null" \/ JSONparse(lastCompare) # <<>>)
    /\ [][/\ route' # route /\ route' = "/"
               => upload'.result = <<>> /\ upload'.fullCompare = <<>>
          /\ route' # route /\ route' = "/compare"
               => compare'.result = IF locationState' # <<>> THEN locationState'
                                    ELSE JSONparse(lastCompare)]_vars

\* a Compare page that has sent nothing shows the payload read from sessionStorage
C8_Witness ==
    /\ route = "/compare"
    /\ locationState = <<>>
    /\ compare.file = <<>>
    /\ compare.result # <<>>
    /\ compare.result = JSONparse(lastCompare)

\* C9: clearing, picking or dropping a file leaves every request in flight as it is; a
\* request leaves only in the step in which it settles, and a mounted component then
\* ends loading and shows an error or a result.
C9_NoCancellation ==
    [][/\ Upload_reset \/ Upload_onFileChange \/ Upload_onDrop \/ Compare_onFile
            => requests' = requests
       /\ Len(requests') < Len(requests) => Upload_onResponse \/ Compare_onResponse
       /\ \A i \in 1..Len(requests) :
            requests[i].live /\ requests' = RemoveAt(requests, i)
               => IF requests[i].from = "Upload"
                  THEN ~upload'.loading /\ (upload'.error # "" \/ upload'.result # <<>>)
                  ELSE ~compare'.loading /\ (compare'.error # "" \/ compare'.result # <<>>)
      ]_vars

\* Upload was cleared while its request is still in flight
C9_Witness ==
    /\ route = "/"
    /\ upload.file = <<>>
    /\ upload.error = ""
    /\ upload.loading
    /\ InFlight("Upload") # {}

\* C10: every request in flight goes to the configured base URL followed by the path
\* of its endpoint.
C10_ApiBaseUrl ==
    /\ \A h \in Hooks : \A i \in 1..Len(checks[h]) : checks[h][i].url = API.HEALTH
    /\ \A i \in 1..Len(requests) :
         requests[i].url = IF requests[i].from = "Upload" THEN API.DETECT
                           ELSE API.COMPARE_IMAGE


\* a 2xx JSON detect response that carries both models and selection
FullDetect(r) ==
    /\ r.kind = "json" /\ r.ok
    /\ "models" \in DOMAIN r.data /\ "selection" \in DOMAIN r.data

\* the comparison payload p has the models, selection, label and confidence of body d
SamePayload(p, d) ==
    /\ p.models = d.models /\ p.selection = d.selection
    /\ p.final.label = d.label /\ p.final.confidence = d.confidence

\* C11 as stated: a detect response with models and selection leaves its payload with
\* Upload and in sessionStorage 'lastCompare'; 'View comparison chart' opens Compare
\* on exactly that payload, which then is the stored one; /compare opened without
\* navigation state shows the stored payload.
C11_RoundTripAsStated ==
    [][/\ \A i \in 1..Len(requests) : \A r \in DetectResponses : \A stored \in BOOLEAN :
            Upload_onResponseWith(i, r, stored) /\ requests[i].live /\ FullDetect(r)
               => /\ upload'.fullCompare # <<>>
                  /\ SamePayload(upload'.fullCompare[1], r.data)
                  /\ JSONparse(lastCompare') = upload'.fullCompare
       /\ Upload_viewComparison
            => /\ route' = "/compare"
               /\ compare'.result = upload.fullCompare
               /\ JSONparse(lastCompare') = upload.fullCompare
       /\ route # "/compare" /\ route' = "/compare" /\ locationState' = <<>>
            => compare'.result = JSONparse(lastCompare)]_vars

\* C11, amended: the same round trip, where the stored value is the payload only if
\* sessionStorage accepted the write (setItem may throw; the code swallows it, and
\* 'lastCompare' then keeps what it held).
C11_RoundTrip ==
    [][/\ \A i \in 1..Len(requests) : \A r \in DetectResponses : \A stored \in BOOLEAN :
            Upload_onResponseWith(i, r, stored) /\ requests[i].live /\ FullDetect(r)
               => /\ upload'.fullCompare # <<>>
                  /\ SamePayload(upload'.fullCompare[1], r.data)
                  /\ IF stored THEN JSONparse(lastCompare') = upload'.fullCompare
                     ELSE lastCompare' = lastCompare
       /\ \A stored \in BOOLEAN :
            route = "/" /\ upload.fullCompare # <<>>
            /\ Navigate("/compare", upload.fullCompare, stored)
               => /\ compare'.result = upload.fullCompare
                  /\ IF stored THEN JSONparse(lastCompare') = upload.fullCompare
                     ELSE lastCompare' = lastCompare
       /\ route # "/compare" /\ route' = "/compare" /\ locationState' = <<>>
            => compare'.result = JSONparse(lastCompare)]_vars

\* Compare was opened by 'View comparison chart' on a payload other than the one that
\* had been stored before; it shows the passed payload, which is now the stored one
C11_Witness ==
    /\ route = "/compare"
    /\ locationState = <<comparePayload(DetectFull1)>>
    /\ compare.result = locationState
    /\ JSONparse(lastCompare) = locationState
    /\ nSent = 2


\* C12: every step in which Upload handles a submit, and so every step that starts a
\* request to /api/detect, is taken with Upload's own health state online and not
\* checking, and with no request of Upload loading.
C12_SubmitGatedOnHealth ==
    [][/\ Upload_onSubmit
            => health["Upload"].online /\ ~health["Upload"].checking /\ ~upload.loading
       /\ Len(requests') > Len(requests) /\ requests'[Len(requests')].from = "Upload"
            => /\ Upload_onSubmit
               /\ health["Upload"].online /\ ~health["Upload"].checking]_vars

\* a detect request, started while online, is in flight when a later health check has
\* reported the backend offline
C12_Witness ==
    /\ route = "/"
    /\ InFlight("Upload") # {}
    /\ upload.loading
    /\ ~health["Upload"].online /\ ~health["Upload"].checking


\* C13: whenever the Home page displays the result of a successful detection, it
\* displays a chart of the model comparisons as well.
C13_InlineChart ==
    route = "/" /\ "result" \in Page => "chart" \in Page


\* C14: in every run that has written 'Ready to deploy!', every check passed: the four
\* model files were found, the backend import test printed OK and the frontend build
\* exited with code 0.
C14_ReadyMeansChecksPassed ==
    "Ready to deploy! Good luck!" \in prepare.out
       => /\ \A f \in modelFiles : (f \o " - NOT FOUND") \notin prepare.out
          /\ prepare.allModelsExist
          /\ "Backend imports working" \in prepare.out
          /\ "Frontend build successful" \in prepare.out

\* C15: the script stops with exit 1 when the server or the client directory is
\* missing, when Python is not found and when Node.js is not found; the three checks
\* come in that order, before any other step, and after exit 1 nothing more happens.
C15_EarlyExit ==
    [][/\ \A hasServer, hasClient \in BOOLEAN :
            CheckDirectoryWith(hasServer, hasClient) /\ ~(hasServer /\ hasClient)
               => prepare'.pc = "exit 1"
       /\ \A found \in BOOLEAN :
            (CheckPythonWith(found) \/ CheckNodeWith(found)) /\ ~found
               => prepare'.pc = "exit 1"
       /\ prepare.pc = "exit 1" => prepare' = prepare
       /\ CheckPython => prepare.out = {"Running from correct directory"}
       /\ CheckNode => prepare.out = {"Running from correct directory",
                                      "Checking Python...", "Python found"}
       /\ prepare'.pc \notin {"directory", "python", "node", "exit 1"}
            => {"Running from correct directory", "Python found", "Node.js found"}
                  \subseteq prepare'.out]_vars

\* a run stopped at the Node.js check, after the directory and Python checks passed
C15_Witness ==
    /\ prepare.pc = "exit 1"
    /\ prepare.out = {"Running from correct directory", "Checking Python...",
                      "Python found", "Checking Node.js...",
                      "Node.js not found. Install Node.js 16+"}


\* C16: a result Upload displays was computed from the file that is currently
\* selected: a response brings a result on display only while the file of its request
\* is the current file, and every change of the current file removes the result.
C16_ResultMatchesFile ==
    [][/\ \A i \in 1..Len(requests) : \A r \in DetectResponses : \A stored \in BOOLEAN :
            Upload_onResponseWith(i, r, stored) /\ requests[i].live
            /\ upload'.result # <<>> /\ upload'.error = ""
               => upload'.file = <<requests[i].file>>
       /\ route' = route /\ upload'.file # upload.file => upload'.result = <<>>]_vars


\* C17: the response of a check that was overtaken (a check started after it has
\* already settled) leaves online, modelPresent and checking as they are, so that
\* the hook's state is the outcome of the most recently started check that has settled.
C17_LatestCheckWins ==
    [][\A h \in Hooks : \A i \in 1..Len(checks[h]) : \A r \in HealthResponses :
          checkSettlesWith(h, i, r) /\ checks[h][i].live /\ checks[h][i].overtaken
             => health'[h] = health[h]]_vars


\* the messages with which a page rejects a selection
RejectionMessages ==
    {"No file selected", "Only JPG, PNG, or WEBP images are allowed.",
     "File is too large (max 5MB)."}

\* C18: on Upload and on Compare, a submit made while no valid file is chosen (no file
\* is held, or the page still shows the message with which it rejected the most
\* recent selection) sends no request, leaves loading false and asks for an image.
C18_SubmitWithoutFile ==
    [][/\ Upload_onSubmit /\ (upload.file = <<>> \/ upload.error \in RejectionMessages)
            => /\ requests' = requests
               /\ ~upload'.loading
               /\ upload'.error = "Please select an image first."
       /\ Compare_onSubmit /\ (compare.file = <<>> \/ compare.error \in RejectionMessages)
            => /\ requests' = requests
               /\ ~compare'.loading
               /\ compare'.error = "Please choose an image."]_vars


\* C19: whenever Upload offers 'View comparison chart', it displays a result, and the
\* payload the button passes has the label and the confidence of that result.
C19_ComparisonMatchesResult ==
    route = "/" /\ "View comparison chart" \in Upload_render
       => /\ "result" \in Upload_render
          /\ upload.fullCompare[1].final.label = upload.result[1].label
          /\ upload.fullCompare[1].final.confidence = upload.result[1].confidence


\* C20: Upload never displays its error panel together with its result panel, and
\* neither does Compare.
C20_ErrorResultExclusive ==
    ~({"error", "result"} \subseteq Page)


\* a 2xx response whose content type does not include application/json
NonJson2xx(r) ==
    /\ r.kind = "text" /\ r.ok
    /\ ~Includes(r.contentType, "application/json")

\* C21: on Upload and on Compare, a 2xx response whose content type does not include
\* application/json leaves result null and a non-empty error; on Upload the error is
\* the first 200 characters of the body, or 'Non-JSON response from server' when the
\* body is empty.
C21_NonJsonNeverResult ==
    [][/\ \A i \in 1..Len(requests) : \A r \in DetectResponses : \A stored \in BOOLEAN :
            Upload_onResponseWith(i, r, stored) /\ requests[i].live /\ NonJson2xx(r)
               => /\ upload'.result = <<>>
                  /\ upload'.error = IF r.text # "" THEN FirstChars(r.text, 200)
                                     ELSE "Non-JSON response from server"
       /\ \A i \in 1..Len(requests) : \A r \in CompareResponses :
            Compare_onResponseWith(i, r) /\ requests[i].live /\ NonJson2xx(r)
               => /\ compare'.result = <<>>
                  /\ compare'.error # ""]_vars


\* C22: the upload form of Compare stays reachable: whenever the Compare page is
\* open, the user's actions on that page lead to the form being shown again, unless
\* the page is left.
C22_FormReachable ==
    [](route = "/compare" => <>(Compare_formShown \/ route # "/compare"))


\* C23: Upload is loading exactly while a request of the mounted Upload is in flight,
\* Compare exactly while a request of the mounted Compare is in flight, and the step
\* in which such a request settles, with success or failure, ends the loading state.
C23_LoadingState ==
    /\ [](upload.loading <=> InFlight("Upload") # {})
    /\ [](compare.loading <=> InFlight("Compare") # {})
    /\ [][/\ \A i \in 1..Len(requests) : \A r \in DetectResponses : \A stored \in BOOLEAN :
               Upload_onResponseWith(i, r, stored) /\ requests[i].live => ~upload'.loading
          /\ \A i \in 1..Len(requests) : \A r \in CompareResponses :
               Compare_onResponseWith(i, r) /\ requests[i].live => ~compare'.loading]_vars

\* Compare is loading while the request of an Upload that was unmounted meanwhile is
\* still in flight as well
C23_Witness ==
    /\ route = "/compare"
    /\ compare.loading
    /\ ~upload.loading
    /\ Len(requests) = 2


\* the checks of hook h that are in flight and belong to its mounted instance
LiveChecks(h) == {i \in 1..Len(checks[h]) : checks[h][i].live}

\* C24: a hook starts one check when it mounts and one more at every tick of its
\* interval while it is mounted, whether or not earlier checks have settled; an
\* unmounted hook starts none.  (The model has no clock: a tick is a step.)
C24_PollingSchedule ==
    /\ [](\A h \in Hooks :
            /\ ~HookMounted(h) => LiveChecks(h) = {}
            /\ HookMounted(h) /\ health[h].checking => LiveChecks(h) # {}
            /\ HookMounted(h) /\ Len(checks[h]) < MaxChecks => ENABLED intervalTick(h))
    /\ [][\A h \in Hooks :
            /\ ~HookMounted(h) /\ HookMounted(h)'
                 => Cardinality(LiveChecks(h)') = 1 /\ checks'[h][Len(checks'[h])].live
            /\ Len(checks'[h]) > Len(checks[h])
                 => /\ Len(checks'[h]) = Len(checks[h]) + 1
                    /\ HookMounted(h)'
                    /\ intervalTick(h) \/ ~HookMounted(h)
            /\ ~HookMounted(h)' => Len(checks'[h]) <= Len(checks[h])]_vars

\* Upload is unmounted with a check of its last instance still in flight, and the
\* hook of HealthBadge has started a second check before its first has settled
C24_Witness ==
    /\ route # "/"
    /\ checks["Upload"] # <<>>
    /\ Cardinality(LiveChecks("HealthBadge")) = 2
    /\ health["HealthBadge"].checking


\* C25: the checking flag of a hook instance is true from its mount until the first of
\* its checks settles, with success or failure, and false from then on; so the badge
\* reads 'Checking...' exactly while the flag is true, and the submit button reads
\* 'Checking API...' only while it is true.  (Unmounting Upload ends its instance; the
\* next mount starts a new one, checking again.)
C25_CheckingFlag ==
    /\ [](\A h \in Hooks :
            /\ HealthBadgeText(health[h]) = "Checking..." <=> health[h].checking
            /\ \A loading \in BOOLEAN :
                 submitLabel(loading, health[h]) = "Checking API..." => health[h].checking
            /\ HookMounted(h) /\ health[h].checking => LiveChecks(h) # {})
    /\ [][\A h \in Hooks :
            /\ \A i \in 1..Len(checks[h]) : \A r \in HealthResponses :
                 checkSettlesWith(h, i, r) /\ checks[h][i].live => ~health'[h].checking
            /\ health[h].checking /\ ~health'[h].checking
                 => \E i \in LiveChecks(h) : \E r \in HealthResponses :
                       checkSettlesWith(h, i, r)
            /\ ~health[h].checking /\ health'[h].checking
                 => h = "Upload" /\ route = "/" /\ route' # "/"
            /\ ~HookMounted(h) /\ HookMounted(h)' => health'[h].checking]_vars

\* a new instance of Upload's hook is checking while a check of an earlier instance is
\* still in flight, and the hook of HealthBadge has finished checking
C25_Witness ==
    /\ route = "/"
    /\ health["Upload"].checking
    /\ ~health["HealthBadge"].checking
    /\ \E i \in 1..Len(checks["Upload"]) : ~checks["Upload"][i].live
    /\ Upload_submitLabel = "Checking API..."

====
